---- MODULE Spec2Model ----
(***************************************************************************)
(* Model of the trade journal of src/app.py: the record list kept in       *)
(* st.session_state.trades and the operations add_trade, update_trade,     *)
(* delete_trade, clear_all_trades, export_to_csv and import_from_csv.      *)
(*                                                                         *)
(* Python values are tagged records [k, s, n]: k is the Python type, s the *)
(* text of a str / list repr / date, n the number of an int or a float.    *)
(* Floats are restricted to whole numbers; 2 and 2.0 stay distinct values  *)
(* (k = "int" against k = "float") as they are distinct in Python.         *)
(***************************************************************************)
EXTENDS Integers, Sequences, FiniteSets, TLC

\* ------------------------------------------------------------------ bounds
\* Longest record list explored.
MaxTrades == 2
\* Largest number whose decimal text float()/int()/read_csv can parse here.
MaxNum == 12

\* ------------------------------------------------------------ Python values
None == [k |-> "none", s |-> "", n |-> 0]
NaN == [k |-> "nan", s |-> "", n |-> 0]
StrV(x) == [k |-> "str", s |-> x, n |-> 0]
IntV(i) == [k |-> "int", s |-> "", n |-> i]
FloatV(i) == [k |-> "float", s |-> "", n |-> i]
ListV(x) == [k |-> "list", s |-> x, n |-> 0]
DateV(x) == [k |-> "date", s |-> x, n |-> 0]
TimestampV(x) == [k |-> "timestamp", s |-> x, n |-> 0]

NumRange == 0..MaxNum

\* bool(v): the truth value Python gives v in `x if v else None`.
Truthy(v) ==
    CASE v.k = "none" -> FALSE
      [] v.k = "str" -> v.s # ""
      [] v.k = "int" -> v.n # 0
      [] v.k = "float" -> v.n # 0
      [] v.k = "list" -> v.s # "[]"
      [] OTHER -> TRUE

\* str(n) of an int and of a whole float.
FormatInt(i) == ToString(i)
FormatFloat(i) == ToString(i) \o ".0"

\* The decimal texts of the numbers of NumRange, and the numbers they denote.
IntTexts == [i \in NumRange |-> FormatInt(i)]
FloatTexts == [i \in NumRange |-> FormatFloat(i)]
IntTextSet == {IntTexts[i] : i \in NumRange}
FloatTextSet == {FloatTexts[i] : i \in NumRange}

IsIntText(x) == x \in IntTextSet
IsFloatText(x) == x \in FloatTextSet
IntOfText(x) == CHOOSE i \in NumRange : IntTexts[i] = x
FloatOfText(x) == CHOOSE i \in NumRange : FloatTexts[i] = x

\* float(v): ok = FALSE stands for the ValueError of an unparsable str.
py_float(v) ==
    CASE v.k = "int" -> [ok |-> TRUE, val |-> FloatV(v.n)]
      [] v.k = "float" -> [ok |-> TRUE, val |-> v]
      [] v.k = "str" /\ IsIntText(v.s) -> [ok |-> TRUE, val |-> FloatV(IntOfText(v.s))]
      [] v.k = "str" /\ IsFloatText(v.s) -> [ok |-> TRUE, val |-> FloatV(FloatOfText(v.s))]
      [] OTHER -> [ok |-> FALSE, val |-> None]

\* int(v): a str must be the text of an integer, "2.0" is a ValueError.
py_int(v) ==
    CASE v.k = "int" -> [ok |-> TRUE, val |-> v]
      [] v.k = "float" -> [ok |-> TRUE, val |-> IntV(v.n)]
      [] v.k = "str" /\ IsIntText(v.s) -> [ok |-> TRUE, val |-> IntV(IntOfText(v.s))]
      [] OTHER -> [ok |-> FALSE, val |-> None]

\* a * b of two numbers: an int only when both are ints.
py_mul(a, b) ==
    IF a.k = "int" /\ b.k = "int" THEN IntV(a.n * b.n) ELSE FloatV(a.n * b.n)

\* ------------------------------------------------------------ trade records
KeyOrder ==
    << "Date", "Stock/Symbol", "Strategy", "CE/PE", "Strike Price",
       "Expiry Date", "LTP", "Lot Size", "Quantity", "Total Quantity",
       "Buy Size", "Notes", "Image", "C Level", "Criteria", "Current Wave" >>

Keys == {KeyOrder[i] : i \in 1..Len(KeyOrder)}

Today == "2024-01-05"

get_default_trade_entry ==
    [key \in Keys |->
        CASE key = "Date" -> StrV(Today)
          [] key = "Stock/Symbol" -> StrV("")
          [] key = "Strategy" -> StrV("")
          [] key = "CE/PE" -> StrV("CE")
          [] key = "Notes" -> StrV("")
          [] key = "Criteria" -> ListV("[]")
          [] OTHER -> None]

\* calculate_buy_size testing `if total_quantity and ltp`: a zero operand
\* then counts as unknown.
calculate_buy_size_truthy(total_quantity, ltp) ==
    IF Truthy(total_quantity) /\ Truthy(ltp)
    THEN py_mul(total_quantity, ltp)
    ELSE None

calculate_buy_size(total_quantity, ltp) ==
    IF total_quantity # None /\ ltp # None
    THEN py_mul(total_quantity, ltp)
    ELSE None

\* The conversion the try block applies to a field: int() for Quantity,
\* float() for LTP, Lot Size and Strike Price.
Convert(key, v) == IF key = "Quantity" THEN py_int(v) ELSE py_float(v)

\* `new_trade[key] = conv(new_trade[key]) if new_trade[key] else None`
CoerceField(t, key) ==
    IF Truthy(t.rec[key])
    THEN IF Convert(key, t.rec[key]).ok
         THEN [t EXCEPT !.rec[key] = Convert(key, t.rec[key]).val]
         ELSE [t EXCEPT !.err = TRUE]
    ELSE [t EXCEPT !.rec[key] = None]

\* One assignment of the try block: skipped once a ValueError was raised.
TryStep(t, key) == IF t.err THEN t ELSE CoerceField(t, key)

\* The try block of add_trade and update_trade: the four assignments in
\* order, the record mutated in place up to the first ValueError.
CoerceNumeric(trade) ==
    LET t0 == [rec |-> trade, err |-> FALSE]
        t1 == TryStep(t0, "LTP")
        t2 == TryStep(t1, "Lot Size")
        t3 == TryStep(t2, "Quantity")
        t4 == TryStep(t3, "Strike Price")
    IN  t4

\* Total Quantity, then Buy Size, written over whatever the record held.
Derive(rec) ==
    LET tq == IF rec["Lot Size"] # None /\ rec["Quantity"] # None
              THEN py_mul(rec["Lot Size"], rec["Quantity"])
              ELSE None
        r1 == [rec EXCEPT !["Total Quantity"] = tq]
    IN  [r1 EXCEPT !["Buy Size"] = calculate_buy_size(r1["Total Quantity"], r1["LTP"])]

InvalidNumeric ==
    "Invalid numeric input. Please enter numbers only for LTP, lot size, quantity and strike price."

\* add_trade storing the half-coerced record of a failed add.
add_trade_partial(trs, new_trade) ==
    LET t == CoerceNumeric(new_trade)
    IN  IF t.err
        THEN [trades |-> Append(trs, t.rec), err |-> TRUE, msgs |-> << InvalidNumeric >>]
        ELSE [trades |-> Append(trs, Derive(t.rec)), err |-> FALSE, msgs |-> << >>]

\* add_trade putting the new record first (`trades.insert(0, new_trade)`).
add_trade_prepend(trs, new_trade) ==
    LET t == CoerceNumeric(new_trade)
    IN  IF t.err
        THEN [trades |-> trs, err |-> TRUE, msgs |-> << InvalidNumeric >>]
        ELSE [trades |-> << Derive(t.rec) >> \o trs, err |-> FALSE, msgs |-> << >>]

\* add_trade(trades, new_trade): the returned list and the st.error calls.
add_trade(trs, new_trade) ==
    LET t == CoerceNumeric(new_trade)
    IN  IF t.err
        THEN [trades |-> trs, err |-> TRUE, msgs |-> << InvalidNumeric >>]
        ELSE [trades |-> Append(trs, Derive(t.rec)), err |-> FALSE, msgs |-> << >>]

\* The Add Trade branch of main: add_trade, then st.success whatever
\* add_trade did.
add_handler(trs, new_trade) ==
    LET r == add_trade(trs, new_trade)
    IN  [trades |-> r.trades, err |-> r.err,
         msgs |-> r.msgs \o << "Trade added!" >>]

\* update_trade testing `index < len(trades)` alone: a negative index then
\* counts from the end of the list, as Python's trades[index] does.
update_trade_negative(trs, index, updated_trade) ==
    IF index < Len(trs) /\ -Len(trs) <= index
    THEN LET t == CoerceNumeric(updated_trade)
             pos == IF index >= 0 THEN index + 1 ELSE Len(trs) + index + 1
         IN  IF t.err
             THEN [trades |-> trs, err |-> TRUE, msgs |-> << InvalidNumeric >>]
             ELSE [trades |-> [trs EXCEPT ![pos] = Derive(t.rec)],
                   err |-> FALSE, msgs |-> << >>]
    ELSE [trades |-> trs, err |-> FALSE, msgs |-> << >>]

\* update_trade patching the old record: a field the new record leaves
\* unknown keeps its old value.
update_trade_merge(trs, index, updated_trade) ==
    IF 0 <= index /\ index < Len(trs)
    THEN LET t == CoerceNumeric(updated_trade)
             new == Derive(t.rec)
         IN  IF t.err
             THEN [trades |-> trs, err |-> TRUE, msgs |-> << InvalidNumeric >>]
             ELSE [trades |-> [trs EXCEPT ![index + 1] =
                                [key \in Keys |->
                                    IF new[key] = None THEN trs[index + 1][key]
                                    ELSE new[key]]],
                   err |-> FALSE, msgs |-> << >>]
    ELSE [trades |-> trs, err |-> FALSE, msgs |-> << >>]

\* update_trade(trades, index, updated_trade); Python index i is position i+1.
update_trade(trs, index, updated_trade) ==
    IF 0 <= index /\ index < Len(trs)
    THEN LET t == CoerceNumeric(updated_trade)
         IN  IF t.err
             THEN [trades |-> trs, err |-> TRUE, msgs |-> << InvalidNumeric >>]
             ELSE [trades |-> [trs EXCEPT ![index + 1] = Derive(t.rec)],
                   err |-> FALSE, msgs |-> << >>]
    ELSE [trades |-> trs, err |-> FALSE, msgs |-> << >>]

\* delete_trade taking the index as a position counted from 1.
delete_trade_off_by_one(trs, index) ==
    IF 1 <= index /\ index <= Len(trs)
    THEN SubSeq(trs, 1, index - 1) \o SubSeq(trs, index + 1, Len(trs))
    ELSE trs

\* delete_trade(trades, index)
delete_trade(trs, index) ==
    IF 0 <= index /\ index < Len(trs)
    THEN SubSeq(trs, 1, index) \o SubSeq(trs, index + 2, Len(trs))
    ELSE trs

\* clear_all_trades(): st.session_state.trades = []
clear_all_trades == << >>

\* The Clear All Trades branch binding a local name: the store is kept.
clear_handler_local(trs) ==
    [trades |-> trs, msgs |-> << "All trades cleared!" >>]

\* The Clear All Trades branch of main: clear_all_trades, then st.warning.
clear_handler(trs) ==
    [trades |-> clear_all_trades, msgs |-> << "All trades cleared!" >>]

strategy_options == {"GZ-GZ", "DZ-DZ", "3rd wave", "5th wave", "C wave"}

\* The Edit Trade branch of main for the record at index: the widgets are
\* built in order, strategy_options.index and ["CE", "PE"].index raise
\* ValueError for a value they do not hold, and the Lot Size widget reads
\* the undefined name trade_to_size, a NameError. The exception ends the
\* script run, so the call of update_trade after the widgets and the
\* st.success("Trade updated!") that follows it are not reached.
edit_handler(trs, i) ==
    IF 0 <= i /\ i < Len(trs)
    THEN [trades |-> trs, err |-> TRUE,
          msgs |-> IF trs[i + 1]["Strategy"].k # "str"
                      \/ trs[i + 1]["Strategy"].s \notin strategy_options
                   THEN << "ValueError" >>
                   ELSE IF trs[i + 1]["CE/PE"].k # "str"
                           \/ trs[i + 1]["CE/PE"].s \notin {"CE", "PE"}
                   THEN << "ValueError" >>
                   ELSE << "NameError: name 'trade_to_size' is not defined" >>]
    ELSE [trades |-> trs, err |-> TRUE,
          msgs |-> << "Invalid index. Please enter a valid index to edit." >>]

\* ------------------------------------------------------------ CSV interchange
\* A CSV text is its header and its rows of cell texts; ok = FALSE is a text
\* pandas.read_csv cannot parse. NoFile is the None export_to_csv returns.
NoFile == [ok |-> FALSE, header |-> << >>, rows |-> << >>]

Column(trs, key) == [i \in 1..Len(trs) |-> trs[i][key]]

IsNumber(v) == v.k \in {"int", "float"}
IsMissing(v) == v.k \in {"none", "nan"}

\* pandas.DataFrame(trades): a column of numbers and missing values holding
\* a float or a missing value is float64, so its ints are written as floats.
IsFloatColumn(col) ==
    /\ \A i \in 1..Len(col) : IsNumber(col[i]) \/ IsMissing(col[i])
    /\ \E i \in 1..Len(col) : IsNumber(col[i])
    /\ \E i \in 1..Len(col) : col[i].k # "int"

\* DataFrame.to_csv of one value: a missing value and "" are an empty cell.
\* A date and a Timestamp are both written as their day, the midnight time
\* to_csv adds to a Timestamp in a mixed column is left out.
CellText(v, asFloat) ==
    CASE v.k = "int" -> IF asFloat THEN FormatFloat(v.n) ELSE FormatInt(v.n)
      [] v.k = "float" -> FormatFloat(v.n)
      [] v.k \in {"str", "list", "date", "timestamp"} -> v.s
      [] OTHER -> ""

export_to_csv(trs) ==
    IF Len(trs) > 0
    THEN [ok |-> TRUE,
          header |-> KeyOrder,
          rows |-> [i \in 1..Len(trs) |->
                      [c \in 1..Len(KeyOrder) |->
                          CellText(trs[i][KeyOrder[c]],
                                   IsFloatColumn(Column(trs, KeyOrder[c])))]]]
    ELSE NoFile

\* Texts pandas.to_datetime(errors='coerce') turns into a date.
DateTexts == {Today, "2024-02-29"}
IsDateText(x) == x \in DateTexts

IsNumericText(x) == IsIntText(x) \/ IsFloatText(x)

\* pandas.read_csv types a column as a whole: int64 when every cell is an
\* integer, float64 when every non-empty cell is a number (empty is NaN),
\* object (str, empty is NaN) otherwise.
ReadColumn(cells) ==
    IF \A i \in 1..Len(cells) : IsIntText(cells[i])
    THEN [i \in 1..Len(cells) |-> IntV(IntOfText(cells[i]))]
    ELSE IF \A i \in 1..Len(cells) : cells[i] = "" \/ IsNumericText(cells[i])
    THEN [i \in 1..Len(cells) |->
            IF cells[i] = "" THEN NaN
            ELSE IF IsIntText(cells[i]) THEN FloatV(IntOfText(cells[i]))
            ELSE FloatV(FloatOfText(cells[i]))]
    ELSE [i \in 1..Len(cells) |->
            IF cells[i] = "" THEN NaN ELSE StrV(cells[i])]

\* pd.to_datetime(df['Date'], errors='coerce') on one parsed value
ToDatetime(v) == IF v.k = "str" /\ IsDateText(v.s) THEN TimestampV(v.s) ELSE NaN

RECURSIVE SelectRows(_, _)
\* df.dropna(subset=['Date']): the rows whose Date is a date, in file order.
SelectRows(recs, i) ==
    IF i > Len(recs) THEN << >>
    ELSE IF recs[i]["Date"].k = "timestamp"
         THEN << recs[i] >> \o SelectRows(recs, i + 1)
         ELSE SelectRows(recs, i + 1)

HasColumn(text, key) == \E c \in 1..Len(text.header) : text.header[c] = key
ColumnIndex(text, key) == CHOOSE c \in 1..Len(text.header) : text.header[c] = key

\* import_from_csv(file): ok = FALSE is the None of the except branch (a text
\* read_csv rejects, or a KeyError for a missing Date column).
import_from_csv(text) ==
    IF ~text.ok \/ ~HasColumn(text, "Date")
    THEN [ok |-> FALSE, trades |-> << >>,
          msgs |-> << "Error reading CSV file" >>]
    ELSE LET cols == [c \in 1..Len(text.header) |->
                        ReadColumn([i \in 1..Len(text.rows) |-> text.rows[i][c]])]
             recs == [i \in 1..Len(text.rows) |->
                        [key \in {text.header[c] : c \in 1..Len(text.header)} |->
                            IF key = "Date"
                            THEN ToDatetime(cols[ColumnIndex(text, key)][i])
                            ELSE cols[ColumnIndex(text, key)][i]]]
         IN  [ok |-> TRUE, trades |-> SelectRows(recs, 1), msgs |-> << >>]

\* The upload branch without its test: the store is assigned whatever
\* import_from_csv returned.
import_handler_unguarded(trs, text) ==
    LET imported == import_from_csv(text)
    IN  [trades |-> imported.trades, err |-> ~imported.ok,
         msgs |-> imported.msgs \o << "Data imported successfully!" >>]

\* The upload branch of main: `if imported_trades:` is false for None and
\* for an empty list alike.
import_handler(trs, text) ==
    LET imported == import_from_csv(text)
    IN  IF imported.ok /\ Len(imported.trades) > 0
        THEN [trades |-> imported.trades, err |-> FALSE,
              msgs |-> imported.msgs \o << "Data imported successfully!" >>]
        ELSE [trades |-> trs, err |-> TRUE,
              msgs |-> imported.msgs \o << "Failed to import data from CSV." >>]

\* ------------------------------------------------------------ explored inputs
\* A raw record as a caller hands it to add_trade / update_trade: the default
\* entry with the form fields written over it.
NewTrade(symbol, ltp, lot, qty, strike, derived) ==
    [get_default_trade_entry EXCEPT
        !["Date"] = DateV(Today),
        !["Stock/Symbol"] = StrV(symbol),
        !["LTP"] = ltp,
        !["Lot Size"] = lot,
        !["Quantity"] = qty,
        !["Strike Price"] = strike,
        !["Total Quantity"] = derived,
        !["Buy Size"] = derived]

LtpInputs == {StrV(""), StrV("2"), StrV("abc")}
LotSizeInputs == {IntV(0), IntV(3), StrV("x")}
QuantityInputs == {StrV(""), IntV(2), StrV("2.0")}

NewTrades ==
    {NewTrade("NIFTY", ltp, lot, qty, IntV(0), None) :
        ltp \in LtpInputs, lot \in LotSizeInputs, qty \in QuantityInputs}
    \cup {[NewTrade("TCS", StrV("2"), lot, IntV(2), strike, IntV(7))
                EXCEPT !["Strategy"] = StrV("GZ-GZ")] :
        lot \in {IntV(3), StrV("0")}, strike \in {StrV("5"), StrV("abc")}}

CsvRow(date, lot, qty, total) ==
    [c \in 1..Len(KeyOrder) |->
        CASE KeyOrder[c] = "Date" -> date
          [] KeyOrder[c] = "Stock/Symbol" -> "INFY"
          [] KeyOrder[c] = "CE/PE" -> "PE"
          [] KeyOrder[c] = "Lot Size" -> lot
          [] KeyOrder[c] = "Quantity" -> qty
          [] KeyOrder[c] = "Total Quantity" -> total
          [] KeyOrder[c] = "Criteria" -> "[]"
          [] OTHER -> ""]

CsvRows ==
    {CsvRow("2024-02-29", "3.0", "2", "6.0"),
     CsvRow("2024-02-29", "3.0", "2", "9.0"),
     CsvRow("notadate", "", "2", "")}

\* Tail drops the Date column (the first) of a header and of a row.
CsvTexts ==
    {NoFile}
    \cup {[ok |-> TRUE, header |-> Tail(KeyOrder), rows |-> << Tail(r) >>] :
            r \in CsvRows}
    \cup {[ok |-> TRUE, header |-> KeyOrder, rows |-> << >>]}
    \cup {[ok |-> TRUE, header |-> KeyOrder, rows |-> << r >>] : r \in CsvRows}
    \cup {[ok |-> TRUE, header |-> KeyOrder, rows |-> << r1, r2 >>] :
            r1 \in CsvRows, r2 \in CsvRows}

Indexes(trs) == -1..(Len(trs) + 1)

\* The range test of update_trade, delete_trade and the Edit Trade branch.
InRange(trs, i) == 0 <= i /\ i < Len(trs)

\* The records explored as the argument of update_trade at index i. With
\* the index out of range update_trade returns without reading the record,
\* so the default entry stands for every record there.
UpdatedTrades(trs, i) ==
    IF InRange(trs, i) THEN NewTrades ELSE {get_default_trade_entry}

\* ------------------------------------------------------------- state machine
VARIABLES
    trades,     \* st.session_state.trades
    op,         \* the operation that produced this state
    in_range,   \* its test `0 <= index < len(trades)` passed (TRUE when
                \* it takes no index)
    err,        \* it reported an error
    msgs        \* the st.error / st.success messages it showed

vars == << trades, op, in_range, err, msgs >>

Init ==
    /\ trades = << >>
    /\ op = "init"
    /\ in_range = TRUE
    /\ err = FALSE
    /\ msgs = << >>

Add ==
    /\ Len(trades) < MaxTrades
    /\ \E new_trade \in NewTrades :
        LET r == add_handler(trades, new_trade)
        IN  /\ trades' = r.trades
            /\ err' = r.err
            /\ msgs' = r.msgs
    /\ op' = "add"
    /\ in_range' = TRUE

Update ==
    /\ \E i \in Indexes(trades) : \E updated_trade \in UpdatedTrades(trades, i) :
        LET r == update_trade(trades, i, updated_trade)
        IN  /\ trades' = r.trades
            /\ in_range' = InRange(trades, i)
            /\ err' = r.err
            /\ msgs' = r.msgs
    /\ op' = "update"

Delete ==
    /\ \E i \in Indexes(trades) :
        /\ trades' = delete_trade(trades, i)
        /\ in_range' = InRange(trades, i)
    /\ op' = "delete"
    /\ err' = FALSE
    /\ msgs' = << "Trade deleted!" >>

Clear ==
    /\ trades' = clear_handler(trades).trades
    /\ msgs' = clear_handler(trades).msgs
    /\ op' = "clear"
    /\ in_range' = TRUE
    /\ err' = FALSE

\* The Edit Trade button: shown for a non-empty store, its index widget
\* keeps the index within 0..len-1.
Edit ==
    /\ Len(trades) > 0
    /\ \E i \in 0..(Len(trades) - 1) :
        LET r == edit_handler(trades, i)
        IN  /\ trades' = r.trades
            /\ in_range' = InRange(trades, i)
            /\ err' = r.err
            /\ msgs' = r.msgs
    /\ op' = "edit"

Import ==
    /\ \E file \in CsvTexts :
        /\ Len(file.rows) <= MaxTrades
        /\ LET r == import_handler(trades, file)
           IN  /\ trades' = r.trades
               /\ msgs' = r.msgs
               /\ err' = r.err
    /\ op' = "import"
    /\ in_range' = TRUE

Next == Add \/ Update \/ Delete \/ Clear \/ Import \/ Edit

Spec == Init /\ [][Next]_vars

\* ------------------------------------------------------------------ properties
NumericKeys == {"LTP", "Lot Size", "Quantity", "Strike Price"}
DerivedKeys == {"Total Quantity", "Buy Size"}

\* A raw value that is blank (empty string) or absent.
Blank(v) == v = None \/ v = StrV("")

\* A non-blank string that is no number at all.
NotANumber(v) == v.k = "str" /\ v.s # "" /\ ~IsNumericText(v.s)

\* A non-blank string the field's conversion refuses: Quantity takes
\* integers only, the other fields take any decimal.
Refused(key, v) ==
    /\ v.k = "str"
    /\ v.s # ""
    /\ IF key = "Quantity" THEN ~IsIntText(v.s) ELSE ~IsNumericText(v.s)

\* The derived fields of rec agree with its own raw fields.
DerivedOK(rec) ==
    /\ IF IsMissing(rec["Lot Size"]) \/ IsMissing(rec["Quantity"])
       THEN IsMissing(rec["Total Quantity"])
       ELSE /\ IsNumber(rec["Total Quantity"])
            /\ rec["Total Quantity"].n = rec["Lot Size"].n * rec["Quantity"].n
    /\ IF IsMissing(rec["Total Quantity"]) \/ IsMissing(rec["LTP"])
       THEN IsMissing(rec["Buy Size"])
       ELSE /\ IsNumber(rec["Buy Size"])
            /\ rec["Buy Size"].n = rec["Total Quantity"].n * rec["LTP"].n

\* C1: from every store, an add whose LTP, Lot Size, Quantity or Strike Price
\* is a non-blank value that is no number is rejected: an error is reported
\* and the returned list is the list before the call, record for record.
C1_AddRejectedAtomically ==
    \A t \in NewTrades :
        (\E key \in NumericKeys : NotANumber(t[key]))
            => /\ add_trade(trades, t).err
               /\ add_trade(trades, t).trades = trades

\* A rejected add has run on a store that holds records.
C1_Witness == op = "add" /\ err /\ Len(trades) >= 1

\* C2: an update that does not succeed (index outside [0, len), or a valid
\* index with a numeric field that fails coercion) returns the list it was
\* given, so the record at the index keeps all its values.
C2_FailedUpdateChangesNothing ==
    \A i \in Indexes(trades), t \in NewTrades :
        (~InRange(trades, i) \/ \E key \in NumericKeys : Refused(key, t[key]))
            => update_trade(trades, i, t).trades = trades

\* An update with a valid index was rejected on a store of two records.
C2_Witness ==
    op = "update" /\ err /\ in_range /\ Len(trades) >= 2

\* C3: delete removes exactly the record at a valid index, the others keep
\* their values and relative order; any other index returns the list
\* unchanged, and delete reports nothing.
C3_DeleteExactlyOne ==
    /\ \A i \in Indexes(trades) :
        LET d == delete_trade(trades, i)
        IN  IF InRange(trades, i)
            THEN /\ Len(d) = Len(trades) - 1
                 /\ \A j \in 1..Len(d) :
                        d[j] = trades[IF j <= i THEN j ELSE j + 1]
            ELSE d = trades
    /\ op = "delete" => ~err /\ msgs = << "Trade deleted!" >>

\* A delete with a valid index has removed one record of several.
C3_Witness == op = "delete" /\ in_range /\ Len(trades) >= 1

\* C4: the record a successful add or update stores has Total Quantity =
\* Lot Size x Quantity and Buy Size = Total Quantity x LTP, each unknown
\* when an operand is unknown, whatever derived values the input carried.
C4_StoredDerivedFields ==
    /\ \A t \in NewTrades :
        LET r == add_trade(trades, t)
        IN  ~r.err => DerivedOK(r.trades[Len(r.trades)])
    /\ \A i \in Indexes(trades), t \in NewTrades :
        LET r == update_trade(trades, i, t)
        IN  InRange(trades, i) /\ ~r.err => DerivedOK(r.trades[i + 1])

\* A stored record whose input carried Total Quantity = Buy Size = 7 holds
\* the recomputed 3 x 2 = 6 and 6 x 2 = 12.
C4_Witness ==
    /\ op \in {"add", "update"}
    /\ ~err
    /\ \E i \in 1..Len(trades) :
        /\ trades[i]["Stock/Symbol"] = StrV("TCS")
        /\ trades[i]["Total Quantity"] = FloatV(6)
        /\ trades[i]["Buy Size"] = FloatV(12)

\* C5: coercion in add maps a raw numeric field to unknown exactly when it
\* is blank or absent: blank fields alone never fail the add, and a supplied
\* zero is stored as the known number 0.
C5_UnknownIffBlank ==
    \A t \in NewTrades :
        LET r == add_trade(trades, t)
        IN  /\ (\A key \in NumericKeys : ~Refused(key, t[key])) => ~r.err
            /\ ~r.err =>
                \A key \in NumericKeys :
                    /\ IsMissing(r.trades[Len(r.trades)][key]) <=> Blank(t[key])
                    /\ IsNumber(t[key]) =>
                        /\ IsNumber(r.trades[Len(r.trades)][key])
                        /\ r.trades[Len(r.trades)][key].n = t[key].n

\* C6: an import of a text that cannot be parsed, or that has no Date
\* column, returns no records and the handler keeps the store as it was.
C6_FailedImportKeepsStore ==
    \A file \in CsvTexts :
        (~file.ok \/ ~HasColumn(file, "Date"))
            => /\ ~import_from_csv(file).ok
               /\ import_from_csv(file).trades = << >>
               /\ import_handler(trades, file).trades = trades

\* A failed read of the text has left a non-empty store in place.
C6_Witness ==
    /\ op = "import"
    /\ Len(msgs) = 2
    /\ msgs[1] = "Error reading CSV file"
    /\ Len(trades) >= 1

\* The rows of a text whose Date cell is a date, in file order.
RECURSIVE DatedRows(_, _)
DatedRows(file, i) ==
    IF i > Len(file.rows) THEN << >>
    ELSE IF IsDateText(file.rows[i][ColumnIndex(file, "Date")])
         THEN << i >> \o DatedRows(file, i + 1)
         ELSE DatedRows(file, i + 1)

\* The value v is what the cell text denotes: unknown for an empty cell, the
\* number for a numeric cell, the text itself otherwise.
Denotes(v, cell) ==
    \/ cell = "" /\ IsMissing(v)
    \/ IsIntText(cell) /\ IsNumber(v) /\ v.n = IntOfText(cell)
    \/ IsFloatText(cell) /\ IsNumber(v) /\ v.n = FloatOfText(cell)
    \/ cell # "" /\ ~IsNumericText(cell) /\ v = StrV(cell)

\* C7: every import of a text that parses replaces the whole store by the
\* rows of the text whose Date is a date, in file order; the store is empty
\* afterwards when the text has no such row.
C7_ImportReplacesStore ==
    \A file \in CsvTexts :
        (file.ok /\ HasColumn(file, "Date") /\ Len(file.rows) <= MaxTrades)
            => LET after == import_handler(trades, file).trades
                   rows == DatedRows(file, 1)
               IN  /\ Len(after) = Len(rows)
                   /\ \A j \in 1..Len(rows), c \in 1..Len(file.header) :
                        IF file.header[c] = "Date"
                        THEN after[j]["Date"] = TimestampV(file.rows[rows[j]][c])
                        ELSE Denotes(after[j][file.header[c]], file.rows[rows[j]][c])

\* Python's == on two field values, with any two unknowns taken as equal.
SameValue(a, b) ==
    \/ a = b
    \/ IsMissing(a) /\ IsMissing(b)
    \/ IsNumber(a) /\ IsNumber(b) /\ a.n = b.n
    \/ a.k \in {"date", "timestamp"} /\ b.k \in {"date", "timestamp"} /\ a.s = b.s

\* C8: import(export(records)) = records for every store without an unknown
\* Date, the empty store included: same length, order and field values.
C8_RoundTrip ==
    (\A i \in 1..Len(trades) : ~IsMissing(trades[i]["Date"]))
        => LET back == import_from_csv(export_to_csv(trades))
           IN  /\ back.ok
               /\ Len(back.trades) = Len(trades)
               /\ \A i \in 1..Len(back.trades) :
                    /\ DOMAIN back.trades[i] = DOMAIN trades[i]
                    /\ \A key \in DOMAIN trades[i] :
                        SameValue(back.trades[i][key], trades[i][key])

\* C9: in every reachable store every record's derived fields agree with its
\* raw fields.
C9_DerivationInvariant == \A i \in 1..Len(trades) : DerivedOK(trades[i])

C11_AddAppends ==
    \A t \in NewTrades :
        LET r == add_trade(trades, t)
        IN  ~r.err =>
                /\ Len(r.trades) = Len(trades) + 1
                /\ \A j \in 1..Len(trades) : r.trades[j] = trades[j]
                /\ \A key \in Keys \ (NumericKeys \cup DerivedKeys) :
                        r.trades[Len(trades) + 1][key] = t[key]
                /\ \A key \in NumericKeys :
                        \/ r.trades[Len(trades) + 1][key] = None /\ ~Truthy(t[key])
                        \/ /\ IsNumber(r.trades[Len(trades) + 1][key])
                           /\ Convert(key, t[key]).ok
                           /\ r.trades[Len(trades) + 1][key].n = Convert(key, t[key]).val.n
                /\ DerivedOK(r.trades[Len(trades) + 1])

\* A successful add onto a store that held a different record.
C11_Witness ==
    /\ op = "add"
    /\ ~err
    /\ Len(trades) >= 2
    /\ trades[1] # trades[2]

\* C12: clear empties the store from every reachable state, and a
\* successful add after it leaves a store of exactly that one record.
C12_ClearEmpties ==
    /\ Len(clear_handler(trades).trades) = 0
    /\ \A t \in NewTrades :
        LET r == add_handler(clear_handler(trades).trades, t)
        IN  ~r.err =>
                /\ Len(r.trades) = 1
                /\ r.trades[1]["Stock/Symbol"] = t["Stock/Symbol"]
                /\ DerivedOK(r.trades[1])
    /\ op = "clear" => Len(trades) = 0

\* Clear All Trades has run.
C12_Witness ==
    op = "clear" /\ trades = << >> /\ msgs = << "All trades cleared!" >>

\* C13: the Edit Trade handler, run on a non-empty store with an index in
\* [0, len), runs to completion: it gets past its call of update_trade and
\* shows "Trade updated!", the statement that follows the call.
C13_EditReachesUpdate ==
    op = "edit" => \E m \in 1..Len(msgs) : msgs[m] = "Trade updated!"

\* C14: the Add Trade handler shows "Trade added!" only when add_trade
\* stored the record; a rejected add shows the validation error alone.
C14_SuccessOnlyWhenAdded ==
    op = "add" =>
        /\ (\E m \in 1..Len(msgs) : msgs[m] = "Trade added!") => ~err
        /\ err => msgs = << InvalidNumeric >>

====
